---- MODULE Spec2Model ----
\* Model of the book-voice-reader command-line client (script.py):
\* the interactive loop of main(), the handshake of setup(), the turn
\* exchange of generate_audio(), the playback task, the file reader and
\* the tone formatter.  Texts are sequences of one-character strings.
EXTENDS Integers, Sequences, FiniteSets, TLC

\* ---------------------------------------------------------------- bounds
\* number of cycles of the interactive loop
MaxTurns == 2
\* number of messages the server may send in answer to turns
MaxSrvMsgs == 3
\* length of the texts the tone formatter is applied to
MaxTextLen == 3

\* ---------------------------------------------------- audio parameters
WAVE_CHANNELS == 1
WAVE_RATE == 24000
WAVE_SAMPLE_WIDTH == 2

\* ------------------------------------------------------ string helpers
LowerChars ==
    <<"a","b","c","d","e","f","g","h","i","j","k","l","m","n","o","p","q","r","s","t","u","v","w","x","y","z">>

UpperChars ==
    <<"A","B","C","D","E","F","G","H","I","J","K","L","M","N","O","P","Q","R","S","T","U","V","W","X","Y","Z">>

\* str.lower() on one character
LowerChar(c) ==
    IF \E i \in 1..26 : UpperChars[i] = c
    THEN LowerChars[CHOOSE i \in 1..26 : UpperChars[i] = c]
    ELSE c

\* str.upper() on one character
UpperChar(c) ==
    IF \E i \in 1..26 : LowerChars[i] = c
    THEN UpperChars[CHOOSE i \in 1..26 : LowerChars[i] = c]
    ELSE c

\* variant: the typed line is compared as typed, without .lower()
LowerIdentity(s) == s

\* str.lower()
Lower(s) == [i \in 1..Len(s) |-> LowerChar(s[i])]

\* str.upper()
Upper(s) == [i \in 1..Len(s) |-> UpperChar(s[i])]

\* the characters str.split() and int() treat as whitespace
IsSpace(c) == c \in {" ", "\t", "\n"}

RECURSIVE SplitFrom(_, _, _)
\* str.split() with no argument: the maximal runs of non-whitespace
\* characters, in order; cur is the word being read
SplitFrom(s, i, cur) ==
    IF i > Len(s)
    THEN IF cur = <<>> THEN <<>> ELSE <<cur>>
    ELSE IF IsSpace(s[i])
         THEN IF cur = <<>>
              THEN SplitFrom(s, i + 1, <<>>)
              ELSE <<cur>> \o SplitFrom(s, i + 1, <<>>)
         ELSE SplitFrom(s, i + 1, Append(cur, s[i]))

Split(s) == SplitFrom(s, 1, <<>>)

RECURSIVE Join(_, _)
\* sep.join(words)
Join(sep, words) ==
    IF words = <<>> THEN <<>>
    ELSE IF Len(words) = 1 THEN words[1]
    ELSE words[1] \o sep \o Join(sep, Tail(words))

RECURSIVE ReplaceR(_)
\* text.replace('r', 'rrr')
ReplaceR(s) ==
    IF s = <<>> THEN <<>>
    ELSE (IF Head(s) = "r" THEN <<"r", "r", "r">> ELSE <<Head(s)>>) \o ReplaceR(Tail(s))

\* ------------------------------------------------------ tone formatter
NeutralPrefix ==
    <<"S", "a", "y", ":", " ", "\"">>

NeutralSuffix ==
    <<"\"">>

MysteriousPrefix ==
    <<"S", "a", "y", " ", "t", "h", "i", "s", " ", "l", "i", "k", "e", " ", "a", " ", "d", "r", "a", "m", "a", "t", "i", "c", " ", "w", "i", "z", "a", "r", "d", " ", "s", "p", "e", "a", "k", "i", "n", "g", " ", "v", "e", "r", "y", " ", "m", "y", "s", "t", "e", "r", "i", "o", "u", "s", "l", "y", ":", " ", "\"">>

MysteriousSuffix ==
    <<"\"">>

ExcitedPrefix ==
    <<"S", "a", "y", " ", "t", "h", "i", "s", " ", "l", "i", "k", "e", " ", "a", " ", "v", "e", "r", "y", " ", "e", "n", "t", "h", "u", "s", "i", "a", "s", "t", "i", "c", " ", "e", "x", "c", "i", "t", "e", "d", " ", "f", "a", "s", "t", "-", "t", "a", "l", "k", "i", "n", "g", " ", "f", "r", "i", "e", "n", "d", ":", " ", "\"">>

ExcitedSuffix ==
    <<"!", "\"">>

SurprisedPrefix ==
    <<"S", "a", "y", " ", "w", "i", "t", "h", " ", "g", "e", "n", "u", "i", "n", "e", " ", "s", "h", "o", "c", "k", " ", "a", "n", "d", " ", "a", "m", "a", "z", "e", "m", "e", "n", "t", ":", " ", "\"", "O", "h", " ", "w", "o", "w", "!", " ">>

SurprisedSuffix ==
    <<"!", "\"">>

SadPrefix ==
    <<"S", "a", "y", " ", "i", "n", " ", "a", " ", "m", "e", "l", "a", "n", "c", "h", "o", "l", "i", "c", " ", "a", "n", "d", " ", "d", "e", "j", "e", "c", "t", "e", "d", " ", "t", "o", "n", "e", ":", " ", "\"", "*", "s", "i", "g", "h", "*", " ">>

SadSuffix ==
    <<".", ".", ".", "\"">>

AngryPrefix ==
    <<"S", "a", "y", " ", "w", "i", "t", "h", " ", "i", "n", "t", "e", "n", "s", "e", " ", "a", "n", "g", "e", "r", " ", "a", "n", "d", " ", "f", "r", "u", "s", "t", "r", "a", "t", "i", "o", "n", ":", " ", "\"">>

AngrySuffix ==
    <<"!", "!", "!", "\"">>

UncertainPrefix ==
    <<"S", "a", "y", " ", "t", "h", "i", "s", " ", "l", "i", "k", "e", " ", "a", " ", "q", "u", "e", "s", "t", "i", "o", "n", ",", " ", "e", "v", "e", "n", " ", "i", "f", " ", "i", "t", "'", "s", " ", "n", "o", "t", " ", "a", " ", "q", "u", "e", "s", "t", "i", "o", "n", ",", " ", "a", "s", " ", "i", "f", " ", "y", "o", "u", " ", "a", "r", "e", " ", "v", "e", "r", "y", " ", "u", "n", "c", "e", "r", "t", "a", "i", "n", " ", "a", "n", "d", " ", "c", "o", "n", "f", "u", "s", "e", "d", " ", "a", "b", "o", "u", "t", " ", "w", "h", "a", "t", " ", "y", "o", "u", "'", "r", "e", " ", "s", "a", "y", "i", "n", "g", ":", " ", "\"", "H", "m", "m", ".", ".", ".", " ">>

UncertainSuffix ==
    <<"?", "\"">>

WhisperingPrefix ==
    <<"W", "h", "i", "s", "p", "e", "r", " ", "i", "n", " ", "a", " ", "h", "u", "s", "h", "e", "d", ",", " ", "s", "e", "c", "r", "e", "t", "i", "v", "e", " ", "v", "o", "i", "c", "e", ":", " ", "\"">>

WhisperingSuffix ==
    <<"\"">>

YellingPrefix ==
    <<"S", "h", "o", "u", "t", " ", "w", "i", "t", "h", " ", "m", "a", "x", "i", "m", "u", "m", " ", "v", "o", "l", "u", "m", "e", ",", " ", "w", "i", "t", "h", " ", "u", "r", "g", "e", "n", "c", "y", " ", "l", "i", "k", "e", " ", "y", "o", "u", " ", "a", "r", "e", " ", "y", "e", "l", "l", "i", "n", "g", " ", "a", "t", " ", "s", "o", "m", "e", "o", "n", "e", ":", " ", "\"">>

YellingSuffix ==
    <<"!", "!", "!", "\"">>

SlowPrefix ==
    <<"S", "a", "y", " ", "v", "e", "r", "y", " ", "s", "l", "o", "w", "l", "y", " ", "a", "n", "d", " ", "d", "e", "l", "i", "b", "e", "r", "a", "t", "e", "l", "y", ":", " ", "\"">>

SlowSuffix ==
    <<".", ".", ".", "\"">>

FastPrefix ==
    <<"S", "a", "y", " ", "r", "a", "p", "i", "d", "l", "y", " ", "a", "n", "d", " ", "e", "n", "e", "r", "g", "e", "t", "i", "c", "a", "l", "l", "y", ":", " ", "\"">>

FastSuffix ==
    <<"\"">>

SurferPrefix ==
    <<"S", "a", "y", " ", "t", "h", "i", "s", " ", "l", "i", "k", "e", " ", "a", " ", "m", "e", "l", "l", "o", "w", ",", " ", "l", "a", "i", "d", "-", "b", "a", "c", "k", " ", "s", "u", "r", "f", "e", "r", ",", " ", "s", "p", "e", "a", "k", "i", "n", "g", " ", "s", "l", "o", "w", "l", "y", " ", "a", "n", "d", " ", "u", "s", "i", "n", "g", " ", "s", "u", "r", "f", "e", "r", " ", "s", "l", "a", "n", "g", ":", " ", "\"", "W", "o", "a", "h", ".", ".", ".", " ">>

SurferSuffix ==
    <<",", " ", "l", "i", "k", "e", ",", " ", "t", "o", "t", "a", "l", "l", "y", " ", "r", "a", "d", "i", "c", "a", "l", "!", "\"">>

ShakespearePrefix ==
    <<"S", "a", "y", " ", "t", "h", "i", "s", " ", "l", "i", "k", "e", " ", "a", " ", "S", "h", "a", "k", "e", "s", "p", "e", "a", "r", "e", "a", "n", " ", "a", "c", "t", "o", "r", " ", "s", "p", "e", "a", "k", "i", "n", "g", " ", "a", " ", "v", "e", "r", "y", " ", "d", "r", "a", "m", "a", "t", "i", "c", " ", "m", "o", "n", "o", "l", "o", "g", "u", "e", ":", " ", "\"">>

ShakespeareSuffix ==
    <<"\"">>

PiratePrefix ==
    <<"S", "a", "y", " ", "t", "h", "i", "s", " ", "l", "i", "k", "e", " ", "a", " ", "p", "i", "r", "a", "t", "e", ":", " ", "\"", "A", "r", "r", "g", ",", " ">>

PirateSuffix ==
    <<".", ".", ".", " ", "a", "r", "r", "g", "\"">>


neutral(text) == NeutralPrefix \o text \o NeutralSuffix

mysterious(text) == MysteriousPrefix \o text \o MysteriousSuffix

excited(text) == ExcitedPrefix \o Upper(text) \o ExcitedSuffix

surprised(text) == SurprisedPrefix \o text \o SurprisedSuffix

sad(text) == SadPrefix \o text \o SadSuffix

angry(text) == AngryPrefix \o Upper(text) \o AngrySuffix

uncertain(text) == UncertainPrefix \o text \o UncertainSuffix

whispering(text) == WhisperingPrefix \o Lower(text) \o WhisperingSuffix

yelling(text) == YellingPrefix \o Upper(text) \o YellingSuffix

slow(text) == SlowPrefix \o Join(<<".", ".", ".", " ">>, Split(text)) \o SlowSuffix

fast(text) == FastPrefix \o Join(<<"-">>, Split(text)) \o FastSuffix

surfer(text) == SurferPrefix \o text \o SurferSuffix

shakespeare(text) == ShakespearePrefix \o text \o ShakespeareSuffix

\* variant: the replacement is applied to the framed text
pirateFrameFirst(text) == ReplaceR(PiratePrefix \o text \o PirateSuffix)

pirate(text) == PiratePrefix \o ReplaceR(text) \o PirateSuffix

\* variant: the table starts at Mysterious, key 1 is not the neutral tone
tonesShifted ==
    [k \in 1..14 |->
        <<"mysterious", "excited", "surprised", "sad", "angry", "uncertain",
          "whispering", "yelling", "slow", "fast", "surfer", "shakespeare",
          "pirate", "pirate">>[k]]

\* the tones table of main(): identifier -> name of the transform
tones ==
    [k \in 1..14 |->
        <<"neutral", "mysterious", "excited", "surprised", "sad", "angry",
          "uncertain", "whispering", "yelling", "slow", "fast", "surfer",
          "shakespeare", "pirate">>[k]]

TransformNames == {tones[k] : k \in DOMAIN tones}

\* calling a transform function object on a text
Call(transform, text) ==
    CASE transform = "neutral" -> neutral(text)
      [] transform = "mysterious" -> mysterious(text)
      [] transform = "excited" -> excited(text)
      [] transform = "surprised" -> surprised(text)
      [] transform = "sad" -> sad(text)
      [] transform = "angry" -> angry(text)
      [] transform = "uncertain" -> uncertain(text)
      [] transform = "whispering" -> whispering(text)
      [] transform = "yelling" -> yelling(text)
      [] transform = "slow" -> slow(text)
      [] transform = "fast" -> fast(text)
      [] transform = "surfer" -> surfer(text)
      [] transform = "shakespeare" -> shakespeare(text)
      [] transform = "pirate" -> pirate(text)

\* ------------------------------------------------------ int(input(...))
DigitChars == <<"0","1","2","3","4","5","6","7","8","9">>

IsDigit(c) == \E i \in 1..10 : DigitChars[i] = c

DigitVal(c) == (CHOOSE i \in 1..10 : DigitChars[i] = c) - 1

RECURSIVE Strip(_)
\* str.strip(): int() ignores surrounding whitespace
Strip(s) ==
    IF s = <<>> THEN s
    ELSE IF IsSpace(Head(s)) THEN Strip(Tail(s))
    ELSE IF IsSpace(s[Len(s)]) THEN Strip(SubSeq(s, 1, Len(s) - 1))
    ELSE s

RECURSIVE DigitsVal(_, _)
DigitsVal(s, acc) ==
    IF s = <<>> THEN acc ELSE DigitsVal(Tail(s), 10 * acc + DigitVal(Head(s)))

\* int(s) of a typed line: [ok |-> FALSE] stands for ValueError
ParseInt(s) ==
    LET t == Strip(s)
        signed == t # <<>> /\ Head(t) \in {"+", "-"}
        body == IF signed THEN Tail(t) ELSE t
    IN  IF body = <<>> \/ \E i \in 1..Len(body) : ~IsDigit(body[i])
        THEN [ok |-> FALSE, val |-> 0]
        ELSE [ok |-> TRUE,
              val |-> IF signed /\ Head(t) = "-"
                      THEN 0 - DigitsVal(body, 0) ELSE DigitsVal(body, 0)]

\* ------------------------------------------- base64 and 16-bit samples
B64Chars == UpperChars \o LowerChars \o DigitChars \o <<"+", "/">>

B64Val(c) == (CHOOSE i \in 1..64 : B64Chars[i] = c) - 1

RECURSIVE B64Quads(_)
\* the complete groups of four data characters, three bytes each
B64Quads(d) ==
    IF Len(d) < 4 THEN <<>>
    ELSE LET v == B64Val(d[1]) * 262144 + B64Val(d[2]) * 4096
                  + B64Val(d[3]) * 64 + B64Val(d[4])
         IN  <<v \div 65536, (v \div 256) % 256, v % 256>>
             \o B64Quads(SubSeq(d, 5, Len(d)))

\* base64.b64decode(data) for data made of alphabet characters followed
\* by '=' padding: [ok |-> FALSE] stands for binascii.Error
b64decode(data) ==
    LET n == Cardinality({i \in 1..Len(data) : data[i] # "="})
        pads == Len(data) - n
        d == SubSeq(data, 1, n)
        q == n % 4
        rest == SubSeq(d, n - q + 1, n)
    IN  CASE q = 0 -> [ok |-> TRUE, bytes |-> B64Quads(d)]
          [] q = 1 -> [ok |-> FALSE, bytes |-> <<>>]
          [] q = 2 ->
               IF pads < 2 THEN [ok |-> FALSE, bytes |-> <<>>]
               ELSE [ok |-> TRUE,
                     bytes |-> B64Quads(d) \o
                        <<(B64Val(rest[1]) * 64 + B64Val(rest[2])) \div 16>>]
          [] q = 3 ->
               IF pads < 1 THEN [ok |-> FALSE, bytes |-> <<>>]
               ELSE LET v == B64Val(rest[1]) * 4096 + B64Val(rest[2]) * 64
                             + B64Val(rest[3])
                    IN [ok |-> TRUE,
                        bytes |-> B64Quads(d) \o
                           <<v \div 1024, (v \div 4) % 256>>]

\* one little-endian signed 16-bit sample
Int16(lo, hi) ==
    LET u == lo + 256 * hi IN IF u >= 32768 THEN u - 65536 ELSE u

\* np.frombuffer(pcm_data, dtype=np.int16): [ok |-> FALSE] stands for the
\* ValueError of a buffer whose size is not a multiple of the element size
frombuffer(bytes) ==
    IF Len(bytes) % WAVE_SAMPLE_WIDTH # 0
    THEN [ok |-> FALSE, arr |-> <<>>]
    ELSE [ok |-> TRUE,
          arr |-> [i \in 1..(Len(bytes) \div 2) |->
                      Int16(bytes[2 * i - 1], bytes[2 * i])]]

\* ndarray.tobytes() of an int16 array
tobytes(arr) ==
    [i \in 1..(2 * Len(arr)) |->
        LET u == arr[(i + 1) \div 2] % 65536
        IN  IF i % 2 = 1 THEN u % 256 ELSE u \div 256]

RECURSIVE concatenate(_)
\* np.concatenate(responses)
concatenate(arrs) ==
    IF arrs = <<>> THEN <<>> ELSE Head(arrs) \o concatenate(Tail(arrs))

\* ---------------------------------------------------------- environment
\* lines the user may type at the tone prompt
ToneInputs ==
    { <<"0">>, <<"1">>, <<" ", "1", "4">>, <<"1", "5">>, <<"-", "1">>, <<"x">> }

\* lines the user may type at the input-mode prompt
ModeInputs ==
    { <<"1">>, <<"2">>, <<"1", " ">>,
      <<"e", "x", "i", "t">>, <<"E", "x", "I", "T">> }

\* lines the user may type at the text prompt
TextInputs == { <<"a", " ", "r", "R">> }

\* names the user may type at the filename prompt
FileNames == { "book.txt", "empty.txt", "missing.txt", "locked.txt" }

\* open(filename, 'r') and file.read() on the file system of the run
OpenRead(filename) ==
    CASE filename = "book.txt" ->
            [outcome |-> "ok", text |-> <<"A", "r">>]
      [] filename = "empty.txt" ->
            [outcome |-> "ok", text |-> <<>>]
      [] filename = "missing.txt" ->
            [outcome |-> "FileNotFoundError", text |-> <<>>]
      [] OTHER ->
            [outcome |-> "Exception", text |-> <<>>]

\* the value None
None == [none |-> TRUE, text |-> <<>>]

\* read_from_file(filename): the text, or None after printing the error
read_from_file(filename) ==
    LET r == OpenRead(filename)
    IN  IF r.outcome = "ok" THEN [none |-> FALSE, text |-> r.text]
        ELSE IF r.outcome = "FileNotFoundError" THEN None
        ELSE None

\* truth value of `if file_content:`
Truthy(file_content) == ~file_content.none /\ file_content.text # <<>>

\* base64 payloads a server message may carry
DataA == <<"A", "Q", "A", "=">>
DataB == <<"/", "/", "8", "=">>
DataEmpty == <<>>
DataOdd == <<"A", "Q", "=", "=">>
DataBadPad == <<"A", "Q">>

Part(data) == [hasData |-> TRUE, data |-> data]

\* a part without inlineData, or whose inlineData has no data
PartNoData == [hasData |-> FALSE, data |-> <<>>]

\* a received frame after decoding and json.loads: ascii/json tell whether
\* decode("ascii") and json.loads succeed
Frame(sc, parts, tc) ==
    [ascii |-> TRUE, json |-> TRUE, hasServerContent |-> sc,
     parts |-> parts, turnComplete |-> tc]

\* the local `response` before the first message of a turn
NoResponse ==
    [ascii |-> TRUE, json |-> TRUE, hasServerContent |-> TRUE,
     parts |-> <<>>, turnComplete |-> "unset"]

MsgBad == [Frame(FALSE, <<>>, "absent") EXCEPT !.json = FALSE]
MsgNoServerContent == Frame(FALSE, <<>>, "absent")
MsgIdle == Frame(TRUE, <<>>, "absent")
MsgAB == Frame(TRUE, <<Part(DataA), PartNoData, Part(DataB)>>, "false")
MsgBDone == Frame(TRUE, <<Part(DataB)>>, "true")
MsgDone == Frame(TRUE, <<>>, "true")
MsgEmpty == Frame(TRUE, <<Part(DataEmpty)>>, "true")
MsgOdd == Frame(TRUE, <<Part(DataA), Part(DataOdd)>>, "absent")
MsgBadPad == Frame(TRUE, <<Part(DataBadPad)>>, "true")

\* messages the server may send in answer to a turn
Msgs ==
    { MsgBad, MsgNoServerContent, MsgIdle, MsgAB, MsgBDone, MsgDone,
      MsgEmpty, MsgOdd }

\* frames the server may send in answer to the setup message
AckFrames ==
    { MsgNoServerContent,
      [MsgNoServerContent EXCEPT !.ascii = FALSE],
      MsgBad }

\* ---------------------------------------------------------------- state
VARIABLES
    pc,                  \* position of main() / generate_audio()
    ws,                  \* the connection as the client holds it
    remote,              \* the remote end: open, closed_ok, closed_err
    wire,                \* frames sent by the server, not yet received
    sent,                \* kinds of the messages the client has sent, in order
    acks,                \* acknowledgements received by setup()
    selected_transform,  \* main's selected_transform
    input_mode,          \* main's input_mode
    segments,            \* text of segments_with_tones
    msg,                 \* text of generate_audio's msg
    responses,           \* generate_audio's responses
    response,            \* generate_audio's last parsed response
    audio_array,         \* generate_audio's audio_array
    stop_event,          \* generate_audio's stop_event
    mixer,               \* pygame mixer: off, init, busy
    frames,              \* bytes given to wf.writeframes
    sunk,                \* output.wav was written by this call of generate_audio
    report,              \* status line printed by the last step, "" if none
    typed,               \* last line typed by the user
    tone_choice,         \* tone identifier the tone prompt was left with
    raw_text,            \* text obtained from the prompt or the file
    arrived,             \* data payloads received in this turn, in order
    answering,           \* turns of the frames consumed in this turn
    srvSent,             \* messages the server sent in answer to turns
    srvDone,             \* the server finished answering the request
    cycles               \* calls of generate_audio so far

vars ==
    <<pc, ws, remote, wire, sent, acks, selected_transform, input_mode,
      segments, msg, responses, response, audio_array, frames, stop_event,
      mixer, sunk, report, typed, tone_choice, raw_text, arrived, answering,
      srvSent, srvDone, cycles>>

\* variables of the user dialogue
dialogue == <<selected_transform, input_mode, segments, typed, tone_choice, raw_text>>

\* locals of generate_audio
locals ==
    <<msg, responses, response, audio_array, frames, stop_event, sunk, arrived,
      answering>>

\* the audio device
device == <<mixer>>

\* the remote end
server == <<remote, srvSent, srvDone>>

\* number of Turn messages sent so far
TurnsSent == Cardinality({i \in 1..Len(sent) : sent[i] = "client_content"})

\* number of setup messages sent so far
SetupsSent == Cardinality({i \in 1..Len(sent) : sent[i] = "setup"})

Init ==
    /\ pc = "setup_send"
    /\ ws = "open"
    /\ remote = "open"
    /\ wire = <<>>
    /\ sent = <<>>
    /\ acks = 0
    /\ selected_transform = "unbound"
    /\ input_mode = <<>>
    /\ segments = <<>>
    /\ msg = <<>>
    /\ responses = <<>>
    /\ response = NoResponse
    /\ audio_array = <<>>
    /\ stop_event = FALSE
    /\ mixer = "off"
    /\ frames = <<>>
    /\ sunk = FALSE
    /\ report = "Default voice"
    /\ typed = <<>>
    /\ tone_choice = -99
    /\ raw_text = <<>>
    /\ arrived = <<>>
    /\ answering = {}
    /\ srvSent = 0
    /\ srvDone = FALSE
    /\ cycles = 0

\* ------------------------------------------------------------ handshake
\* variant: setup() runs inside the try block of the cycle, its exception
\* is printed and the loop goes on
FatalCaught ==
    /\ pc' = "tone"
    /\ ws' = ws
    /\ report' = "An error occurred"

\* an exception leaving main(): `async with` closes the connection and
\* asyncio.run(main()) ends the process with the error
Fatal ==
    /\ pc' = "crashed"
    /\ ws' = "closed"
    /\ report' = "Traceback"

\* setup(): await ws.send(json.dumps({"setup": ...}))
SetupSend ==
    /\ pc = "setup_send"
    /\ IF remote = "open"
       THEN /\ sent' = Append(sent, "setup")
            /\ srvDone' = FALSE
            /\ pc' = "setup_recv"
            /\ report' = ""
            /\ UNCHANGED ws
       ELSE /\ Fatal
            /\ UNCHANGED <<sent, srvDone>>
    /\ UNCHANGED <<remote, wire, acks, srvSent, dialogue, locals, device, cycles>>

\* variant: setup() returns without awaiting the acknowledgement
SetupRecvNoAck ==
    /\ pc = "setup_recv"
    /\ pc' = "tone"
    /\ report' = ""
    /\ UNCHANGED <<ws, wire, sent, acks, dialogue, locals, device,
                   server, cycles>>

\* setup(): raw_response = await ws.recv(); json.loads(decode("ascii"))
SetupRecv ==
    /\ pc = "setup_recv"
    /\ \/ /\ wire # <<>>
          /\ wire' = Tail(wire)
          /\ IF Head(wire).frame.ascii /\ Head(wire).frame.json
             THEN /\ acks' = acks + 1
                  /\ report' = "Connected"
                  /\ pc' = "tone"
                  /\ UNCHANGED ws
             ELSE /\ Fatal
                  /\ UNCHANGED acks
       \/ /\ wire = <<>>
          /\ remote # "open"
          /\ Fatal
          /\ UNCHANGED <<wire, acks>>
    /\ UNCHANGED <<sent, dialogue, locals, device, server, cycles>>

\* ----------------------------------------------------- interactive loop
\* variant: an unknown identifier falls back to the neutral transform
ToneLookupDefault(n) ==
    IF n \in DOMAIN tones THEN [found |-> TRUE, transform |-> tones[n]]
    ELSE [found |-> TRUE, transform |-> "neutral"]

\* lines 281-288: tone 0 keeps the neutral function, a key of the tones
\* table selects its transform, anything else is refused
ToneLookup(n) ==
    IF n = 0 THEN [found |-> TRUE, transform |-> "neutral"]
    ELSE IF n \in DOMAIN tones THEN [found |-> TRUE, transform |-> tones[n]]
    ELSE [found |-> FALSE, transform |-> "unbound"]

\* the tone prompt: one pass of the inner `while True` of lines 278-290
ToneInput(line) ==
    /\ pc = "tone"
    /\ cycles < MaxTurns
    /\ typed' = line
    /\ LET n == ParseInt(line)
       IN  IF ~n.ok
           THEN /\ report' = "Invalid input. Please enter a number."
                /\ UNCHANGED <<pc, selected_transform, tone_choice>>
           ELSE /\ tone_choice' = n.val
                /\ IF ToneLookup(n.val).found
                   THEN /\ selected_transform' = ToneLookup(n.val).transform
                        /\ pc' = "mode"
                        /\ report' = ""
                   ELSE /\ report' = "Invalid tone option."
                        /\ UNCHANGED <<pc, selected_transform>>
    /\ UNCHANGED <<ws, wire, sent, acks, input_mode, segments, raw_text,
                   locals, device, server, cycles>>

\* variant: the error restarts the cycle at the tone prompt
RepromptRestart(line) ==
    /\ report' = line
    /\ pc' = "tone"

\* an error line is printed and the inner `while True` of lines 292-309
\* starts its next pass at the input-mode prompt
Reprompt(line) ==
    /\ report' = line
    /\ pc' = "mode"

\* the input-mode prompt: input(...).lower() and its dispatch; 'exit'
\* leaves both loops and the `async with` block, which closes the
\* connection, and main() returns
ModeInput(line) ==
    /\ pc = "mode"
    /\ typed' = line
    /\ input_mode' = Lower(line)
    /\ IF Lower(line) = <<"e", "x", "i", "t">>
       THEN /\ pc' = "done"
            /\ ws' = "closed"
            /\ report' = ""
       ELSE IF Lower(line) = <<"1">>
       THEN /\ pc' = "text"
            /\ report' = ""
            /\ UNCHANGED ws
       ELSE IF Lower(line) = <<"2">>
       THEN /\ pc' = "filename"
            /\ report' = ""
            /\ UNCHANGED ws
       ELSE /\ Reprompt("Invalid Input Mode")
            /\ UNCHANGED ws
    /\ UNCHANGED <<wire, sent, acks, selected_transform, segments,
                   tone_choice, raw_text, locals, device, server, cycles>>

\* the text prompt: the formatted text becomes the segment to speak
TextInput(line) ==
    /\ pc = "text"
    /\ typed' = line
    /\ raw_text' = line
    /\ segments' = Call(selected_transform, line)
    /\ pc' = "generate"
    /\ report' = ""
    /\ UNCHANGED <<ws, wire, sent, acks, selected_transform, input_mode,
                   tone_choice, locals, device, server, cycles>>

\* the filename prompt and read_from_file
FileInput(filename) ==
    /\ pc = "filename"
    /\ typed' = <<filename>>
    /\ LET file_content == read_from_file(filename)
       IN  IF Truthy(file_content)
           THEN /\ raw_text' = file_content.text
                /\ segments' = Call(selected_transform, file_content.text)
                /\ pc' = "generate"
                /\ report' = ""
           ELSE /\ Reprompt("Error reading file, please try again")
                /\ UNCHANGED <<raw_text, segments>>
    /\ UNCHANGED <<ws, wire, sent, acks, selected_transform, input_mode,
                   tone_choice, locals, device, server, cycles>>

\* ------------------------------------------------------- generate_audio
\* the locals of generate_audio are discarded when the call ends
ResetLocals ==
    /\ msg' = <<>>
    /\ frames' = <<>>
    /\ responses' = <<>>
    /\ response' = NoResponse
    /\ audio_array' = <<>>
    /\ stop_event' = FALSE
    /\ sunk' = FALSE
    /\ arrived' = <<>>
    /\ answering' = {}

\* variant: the call of generate_audio is not guarded, the exception
\* leaves main()
ExceptReraise ==
    /\ pc' = "crashed"
    /\ report' = "Traceback"
    /\ ResetLocals

\* main(): `except Exception as e` around the call of generate_audio; the
\* loop goes on with the next cycle
Except ==
    /\ pc' = "tone"
    /\ report' = "An error occurred"
    /\ ResetLocals

\* variant: responses.insert(0, arr)
PrependResponse(resp, arr) == <<arr>> \o resp

\* responses.append(arr)
AppendResponse(resp, arr) == Append(resp, arr)

\* variant: `if turn_complete is not None:`
TurnCompleteNotNone(turn_complete) == turn_complete # "absent"

\* variant: `if not turn_complete:`
TurnCompleteUnset(turn_complete) == turn_complete # "true"

\* truth value of `if turn_complete:`
TurnCompleteSet(turn_complete) == turn_complete = "true"

\* variant: `if responses is not None:`
HasAudioAlways(resp) == TRUE

\* truth value of `if responses:`
HasAudio(resp) == resp # <<>>

RECURSIVE DecodeParts(_, _)
\* the `for part in parts` loop: [ok |-> FALSE] stands for an exception
\* raised by b64decode or np.frombuffer
DecodeParts(parts, resp) ==
    IF parts = <<>> THEN [ok |-> TRUE, responses |-> resp]
    ELSE IF ~Head(parts).hasData THEN DecodeParts(Tail(parts), resp)
    ELSE LET pcm_data == b64decode(Head(parts).data)
             arr == frombuffer(pcm_data.bytes)
         IN  IF ~pcm_data.ok \/ ~arr.ok
             THEN [ok |-> FALSE, responses |-> resp]
             ELSE DecodeParts(Tail(parts), AppendResponse(resp, arr.arr))

\* the data payloads of a message, in the order of its parts
DataOf(parts) ==
    LET withData == SelectSeq(parts, LAMBDA p : p.hasData)
    IN  [i \in 1..Len(withData) |-> withData[i].data]

\* pygame.mixer.init() and await ws.send(json.dumps(msg))
GenSend ==
    /\ pc = "generate"
    /\ cycles' = cycles + 1
    /\ mixer' = "init"
    /\ IF remote = "open"
       THEN /\ msg' = segments
            /\ sent' = Append(sent, "client_content")
            /\ srvDone' = FALSE
            /\ pc' = "recv"
            /\ report' = ""
            /\ UNCHANGED <<responses, response, audio_array, frames,
                           stop_event, sunk, arrived, answering>>
       ELSE /\ Except
            /\ UNCHANGED <<sent, srvDone>>
    /\ UNCHANGED <<ws, remote, wire, acks, srvSent, dialogue>>

\* variant: `server_content = response["serverContent"]`, a message
\* without serverContent raises KeyError
RecvMsgStrict ==
    /\ pc = "recv"
    /\ wire # <<>>
    /\ wire' = Tail(wire)
    /\ LET f == Head(wire).frame
           r == DecodeParts(f.parts, responses)
       IN  IF ~f.json \/ ~f.hasServerContent \/ ~r.ok
           THEN Except
           ELSE /\ response' = f
                /\ answering' = answering \cup {Head(wire).turn}
                /\ responses' = r.responses
                /\ arrived' = arrived \o DataOf(f.parts)
                /\ pc' = IF TurnCompleteSet(f.turnComplete)
                         THEN "after_loop" ELSE "recv"
                /\ report' = ""
                /\ UNCHANGED <<msg, audio_array, frames, stop_event, sunk>>
    /\ UNCHANGED <<ws, sent, acks, dialogue, device, server, cycles>>

\* one pass of `async for raw_response in ws` on a received frame
RecvMsg ==
    /\ pc = "recv"
    /\ wire # <<>>
    /\ wire' = Tail(wire)
    /\ LET f == Head(wire).frame
           r == DecodeParts(f.parts, responses)
       IN  IF ~f.json
           THEN Except
           ELSE IF ~f.hasServerContent
           THEN /\ response' = f
                /\ answering' = answering \cup {Head(wire).turn}
                /\ pc' = "after_loop"
                /\ report' = ""
                /\ UNCHANGED <<msg, responses, audio_array, frames, stop_event,
                               sunk, arrived>>
           ELSE IF ~r.ok
           THEN Except
           ELSE /\ response' = f
                /\ answering' = answering \cup {Head(wire).turn}
                /\ responses' = r.responses
                /\ arrived' = arrived \o DataOf(f.parts)
                /\ pc' = IF TurnCompleteSet(f.turnComplete)
                         THEN "after_loop" ELSE "recv"
                /\ report' = ""
                /\ UNCHANGED <<msg, audio_array, frames, stop_event, sunk>>
    /\ UNCHANGED <<ws, sent, acks, dialogue, device, server, cycles>>

\* `async for` on a closed connection with nothing left to receive: the
\* loop ends after a normal closure and raises after an abnormal one
RecvEnd ==
    /\ pc = "recv"
    /\ wire = <<>>
    /\ remote # "open"
    /\ IF remote = "closed_ok"
       THEN /\ pc' = "after_loop"
            /\ report' = ""
            /\ UNCHANGED locals
       ELSE Except
    /\ UNCHANGED <<ws, wire, sent, acks, dialogue, device, server, cycles>>

\* the end of generate_audio: pygame.mixer.quit() and return to main
Return ==
    /\ pc' = "tone"
    /\ mixer' = "off"
    /\ ResetLocals

\* lines 153-165 up to the playback: concatenate and write output.wav,
\* or report that nothing was received; written tells whether opening
\* and writing the file succeeded
AfterLoop ==
    /\ pc = "after_loop"
    /\ IF HasAudio(responses)
       THEN \E written \in BOOLEAN :
              IF written
              THEN /\ audio_array' = concatenate(responses)
                   /\ frames' = tobytes(concatenate(responses))
                   /\ sunk' = TRUE
                   /\ stop_event' = FALSE
                   /\ report' = "Response >"
                   /\ pc' = "playback"
                   /\ UNCHANGED <<msg, responses, response, arrived, answering, mixer>>
              ELSE /\ Except
                   /\ UNCHANGED mixer
       ELSE /\ report' = "No audio received"
            /\ Return
    /\ UNCHANGED <<ws, wire, sent, acks, dialogue, server, cycles>>

\* variant: the playback task is started but not awaited
PlayStartDetached ==
    /\ pc = "playback"
    /\ mixer' = "busy"
    /\ report' = "Starting playback"
    /\ pc' = "tone"
    /\ ResetLocals
    /\ UNCHANGED <<ws, wire, sent, acks, dialogue, server, cycles>>

\* variant: audio_playback_task and generate_audio have no except
\* clause, a pygame error reaches the handler of the cycle
PlayStartRaises ==
    /\ pc = "playback"
    /\ \E started \in BOOLEAN :
         IF started
         THEN /\ mixer' = "busy"
              /\ report' = "Starting playback"
              /\ pc' = "playing"
              /\ UNCHANGED locals
         ELSE /\ Except
              /\ UNCHANGED mixer
    /\ UNCHANGED <<ws, wire, sent, acks, dialogue, server, cycles>>

\* audio_playback_task: load and play; started tells whether the device
\* accepted the file, a pygame error is printed by the except clause
PlayStart ==
    /\ pc = "playback"
    /\ \E started \in BOOLEAN :
         IF started
         THEN /\ mixer' = "busy"
              /\ report' = "Starting playback"
         ELSE /\ report' = "Pygame error during playback"
              /\ UNCHANGED mixer
    /\ pc' = "playing"
    /\ UNCHANGED <<ws, wire, sent, acks, dialogue, locals, server, cycles>>

\* the audio device reaches the end of the file
MixerFinish ==
    /\ mixer = "busy"
    /\ mixer' = "init"
    /\ UNCHANGED <<pc, ws, wire, sent, acks, dialogue, locals, report,
                   server, cycles>>

\* variant: `while pygame.mixer.music.get_busy():`, the stop event is
\* not looked at
PlayEndIgnoresStop ==
    /\ pc = "playing"
    /\ mixer # "busy"
    /\ report' = "Playback complete"
    /\ Return
    /\ UNCHANGED <<ws, wire, sent, acks, dialogue, server, cycles>>

\* audio_playback_task ends (the mixer is no longer busy, the stop event
\* is set, or load/play raised): the finally clause prints, and
\* generate_audio releases the mixer and returns
PlayEnd ==
    /\ pc = "playing"
    /\ ~(mixer = "busy" /\ ~stop_event)
    /\ report' = "Playback complete"
    /\ Return
    /\ UNCHANGED <<ws, wire, sent, acks, dialogue, server, cycles>>

\* the holder of the stop event given to audio_playback_task sets it
\* (stop_event.set()) while the task is starting or polling
StopSet ==
    /\ pc \in {"playback", "playing"}
    /\ ~stop_event
    /\ stop_event' = TRUE
    /\ UNCHANGED <<pc, ws, wire, sent, acks, dialogue, msg, responses,
                   response, audio_array, frames, sunk, arrived, answering,
                   device, report, server, cycles>>

\* ------------------------------------------------------- remote service
\* the service answers the setup message with one frame
ServerAck(f) ==
    /\ ws = "open"
    /\ remote = "open"
    /\ SetupsSent = 1
    /\ TurnsSent = 0
    /\ ~srvDone
    /\ wire' = Append(wire, [turn |-> 0, frame |-> f])
    /\ srvDone' = TRUE
    /\ UNCHANGED <<pc, ws, remote, sent, acks, srvSent, dialogue, locals,
                   device, report, cycles>>

\* the service sends a message in answer to the latest turn
ServerSend(m) ==
    /\ ws = "open"
    /\ remote = "open"
    /\ TurnsSent > 0
    /\ ~srvDone
    /\ srvSent < MaxSrvMsgs
    /\ wire' = Append(wire, [turn |-> TurnsSent, frame |-> m])
    /\ srvSent' = srvSent + 1
    /\ srvDone' = (m.json /\ m.hasServerContent /\ m.turnComplete = "true")
    /\ UNCHANGED <<pc, ws, remote, sent, acks, dialogue, locals, device,
                   report, cycles>>

\* the remote end closes the connection, normally or not
ServerClose(how) ==
    /\ ws = "open"
    /\ remote = "open"
    /\ remote' = how
    /\ UNCHANGED <<pc, ws, wire, sent, acks, dialogue, locals, device,
                   report, srvSent, srvDone, cycles>>

\* ------------------------------------------------------------- behaviour
Next ==
    \/ SetupSend
    \/ SetupRecv
    \/ \E line \in ToneInputs : ToneInput(line)
    \/ \E line \in ModeInputs : ModeInput(line)
    \/ \E line \in TextInputs : TextInput(line)
    \/ \E filename \in FileNames : FileInput(filename)
    \/ GenSend
    \/ RecvMsg
    \/ RecvEnd
    \/ AfterLoop
    \/ PlayStart
    \/ MixerFinish
    \/ PlayEnd
    \/ \E f \in AckFrames : ServerAck(f)
    \/ \E m \in Msgs : ServerSend(m)
    \/ \E how \in {"closed_ok", "closed_err"} : ServerClose(how)

Spec == Init /\ [][Next]_vars

\* the program together with a holder of the stop event
NextStop ==
    \/ Next
    \/ StopSet

SpecStop == Init /\ [][NextStop]_vars

\* --------------------------------------------------------------- claims
\* states in which the Audio Sink has been invoked for the current turn
InSink == pc \in {"playback", "playing"}

\* C1: a turn whose receive loop ends with no fragment appended never
\* invokes the Audio Sink (output.wav is not written, playback is not
\* started) and reports "No audio received"
C1_NoAudioNoSink ==
    [][/\ (pc = "after_loop" /\ responses = <<>>) =>
             /\ ~sunk'
             /\ mixer' # "busy"
             /\ pc' \in {"after_loop", "tone"}
             /\ pc' = "tone" => (report' = "No audio received" /\ mixer' = "off")
       /\ ((sunk' /\ ~sunk) \/ (pc' \in {"playback", "playing"} /\ ~InSink)) =>
             responses # <<>>]_vars

C1_Witness ==
    /\ pc = "tone"
    /\ report = "No audio received"
    /\ TurnsSent = 1
    /\ ~sunk

\* C2: whenever the Audio Sink is invoked the sample buffer handed to it
\* holds at least one sample
C2_SinkBufferNonEmpty == InSink => Len(audio_array) >= 1

\* C3 as stated: the receive loop is left normally only after a message
\* carrying turnComplete = true was observed in the turn
C3_OnlyExplicitCompletion ==
    (pc = "after_loop" \/ InSink) =>
        (response.hasServerContent /\ response.turnComplete = "true")

\* C3 amended: the receive loop is left normally only after a message
\* with turnComplete = true, a message without serverContent, or the end
\* of the stream by a normal closure; a message with serverContent and
\* no true completion flag does not end it
C3_CompletionCauses ==
    (pc = "after_loop" \/ InSink) =>
        \/ response.hasServerContent /\ response.turnComplete = "true"
        \/ ~response.hasServerContent
        \/ remote = "closed_ok" /\ wire = <<>>

C3_Witness ==
    /\ pc = "playback"
    /\ ~response.hasServerContent
    /\ remote = "open"
    /\ audio_array = <<1, -1>>

RECURSIVE PcmBytes(_)
\* the decoded bytes of the payloads, one after the other
PcmBytes(datas) ==
    IF datas = <<>> THEN <<>>
    ELSE b64decode(datas[1]).bytes \o PcmBytes(SubSeq(datas, 2, Len(datas)))

RECURSIVE SumLen(_)
SumLen(arrs) ==
    IF arrs = <<>> THEN 0 ELSE Len(arrs[1]) + SumLen(Tail(arrs))

\* C4: the buffer written to the Audio Sink is the received fragments in
\* their order of arrival, none dropped, duplicated or reordered, and
\* its length is the sum of the fragment lengths
C4_ConcatInArrivalOrder ==
    InSink =>
        /\ Len(arrived) >= 1
        /\ Len(responses) = Len(arrived)
        /\ \A i \in 1..Len(arrived) :
              responses[i] = frombuffer(b64decode(arrived[i]).bytes).arr
        /\ frames = PcmBytes(arrived)
        /\ audio_array = frombuffer(PcmBytes(arrived)).arr
        /\ Len(audio_array) = SumLen(responses)

C4_Witness ==
    /\ pc = "playback"
    /\ arrived = <<DataA, DataB, DataB>>
    /\ audio_array = <<1, -1, -1>>
    /\ frames = <<1, 0, 255, 255, 255, 255>>

\* C5: exactly one setup message is sent and exactly one acknowledgement
\* is received before the first prompt and before any Turn message; no
\* Turn message is sent during the handshake and no second setup message
\* is sent later
C5_OneHandshake ==
    /\ SetupsSent <= 1
    /\ acks <= 1
    /\ (pc \in {"setup_send", "setup_recv", "crashed"}) =>
          (TurnsSent = 0 /\ acks = 0)
    /\ (pc \notin {"setup_send", "setup_recv", "crashed"} \/ TurnsSent > 0) =>
          (SetupsSent = 1 /\ sent[1] = "setup" /\ acks = 1)

C5_Witness ==
    /\ pc = "recv"
    /\ TurnsSent = 2
    /\ SetupsSent = 1
    /\ acks = 1

\* a frame on which decoding, json.loads, b64decode or np.frombuffer raises
Undecodable(f) ==
    \/ ~f.json
    \/ /\ f.hasServerContent
       /\ \E i \in 1..Len(f.parts) :
             /\ f.parts[i].hasData
             /\ \/ ~b64decode(f.parts[i].data).ok
                \/ ~frombuffer(b64decode(f.parts[i].data).bytes).ok

\* a step of the client in which sending the Turn message or receiving
\* or decoding a server message raises
RaisingStep ==
    \/ pc = "generate" /\ remote # "open" /\ cycles' # cycles
    \/ pc = "recv" /\ wire # <<>> /\ Undecodable(Head(wire).frame)
          /\ Len(wire') < Len(wire)
    \/ pc = "recv" /\ wire = <<>> /\ remote = "closed_err"

\* C6: an error raised while sending the Turn message or receiving or
\* decoding a server message is caught and logged by the loop; the turn
\* is abandoned without invoking the Audio Sink, nothing is resent, the
\* connection is neither closed nor re-handshaked, and the program is
\* next at the tone prompt
C6_ErrorAbandonsTurn ==
    [][RaisingStep =>
          /\ pc' = "tone"
          /\ report' = "An error occurred"
          /\ ~sunk'
          /\ mixer' # "busy"
          /\ responses' = <<>>
          /\ sent' = sent
          /\ acks' = acks
          /\ ws' = "open"]_vars

C6_Witness ==
    /\ pc = "tone"
    /\ report = "An error occurred"
    /\ TurnsSent = 1
    /\ ~sunk
    /\ ws = "open"
    /\ remote = "open"

\* positions of the interactive loop outside generate_audio
AtPrompt == pc \in {"tone", "mode", "text", "filename", "generate"}

\* C7: turns are sequential: a Turn message is sent only when no earlier
\* turn awaits its response or plays back, and the loop is at a prompt
\* only when the previous turn's receive loop and playback have ended
C7_Sequential ==
    [][/\ AtPrompt' =>
             /\ mixer' # "busy"
             /\ msg' = <<>>
             /\ responses' = <<>>
             /\ audio_array' = <<>>
       /\ (TurnsSent' # TurnsSent) =>
             /\ pc = "generate"
             /\ msg = <<>>
             /\ mixer # "busy"
             /\ TurnsSent' = TurnsSent + 1
             /\ pc' = "recv"]_vars

C7_Witness ==
    /\ pc = "recv"
    /\ TurnsSent = 2
    /\ mixer = "init"
    /\ wire # <<>>

\* the word exit in any letter case
IsExit(line) ==
    /\ Len(line) = 4
    /\ line[1] \in {"e", "E"}
    /\ line[2] \in {"x", "X"}
    /\ line[3] \in {"i", "I"}
    /\ line[4] \in {"t", "T"}

\* C8: 'exit' in any letter case at the input-mode prompt submits no
\* Turn, closes the connection and ends the process; nothing is sent or
\* received afterwards
C8_ExitCloses ==
    [][/\ (pc = "mode" /\ IsExit(typed')) =>
             /\ pc' = "done"
             /\ ws' = "closed"
             /\ sent' = sent
             /\ cycles' = cycles
       /\ pc = "done" =>
             /\ pc' = "done"
             /\ ws' = "closed"
             /\ sent' = sent
             /\ wire' = wire
             /\ acks' = acks]_vars

C8_Witness ==
    /\ pc = "done"
    /\ typed = <<"E", "x", "I", "T">>
    /\ ws = "closed"
    /\ TurnsSent = 1

\* the transform of the fixed tone table for an identifier in 0..14
ToneOf(k) == IF k = 0 THEN "neutral" ELSE tones[k]

\* the typed line is not a number, or not one of 0..14
InvalidTone(line) == ~ParseInt(line).ok \/ ParseInt(line).val \notin 0..14

\* C9: the tone prompt is left only with a transform of the fixed tone
\* table (0 for neutral, or 1..14); a non-numeric or out-of-range line,
\* negative numbers included, re-prompts, sends nothing and invokes no
\* transform
C9_ToneValidated ==
    [][/\ (pc = "tone" /\ InvalidTone(typed')) =>
             /\ pc' = "tone"
             /\ sent' = sent
             /\ selected_transform' = selected_transform
             /\ segments' = segments
       /\ pc' \in {"mode", "text", "filename", "generate"} =>
             /\ tone_choice' \in 0..14
             /\ selected_transform' \in TransformNames
             /\ selected_transform' = ToneOf(tone_choice')]_vars

C9_Witness ==
    /\ pc = "tone"
    /\ typed = <<"-", "1">>
    /\ tone_choice = -1
    /\ report = "Invalid tone option."
    /\ TurnsSent = 1

\* the typed line is none of 1, 2 and exit
InvalidMode(line) ==
    Lower(line) \notin {<<"1">>, <<"2">>, <<"e", "x", "i", "t">>}

\* the typed name is a file that cannot be opened or read
FailedRead(line) ==
    \E f \in FileNames : line = <<f>> /\ OpenRead(f).outcome # "ok"

\* C10: an invalid input mode or a failed file read re-prompts for the
\* input mode, submits no Turn and keeps the loop state: the tone chosen
\* in the cycle is unchanged and is the one applied to the text finally
\* obtained, and the session stays connected
C10_RepromptKeepsTone ==
    [][/\ (\/ pc = "mode" /\ InvalidMode(typed')
           \/ pc = "filename" /\ FailedRead(typed')) =>
             /\ pc' = "mode"
             /\ sent' = sent
             /\ cycles' = cycles
             /\ selected_transform' = selected_transform
             /\ tone_choice' = tone_choice
             /\ ws' = "open"
       /\ (pc' = "generate" /\ pc # "generate") =>
             /\ raw_text' = IF pc = "text" THEN typed'
                            ELSE OpenRead(typed'[1]).text
             /\ segments' = Call(ToneOf(tone_choice'), raw_text')]_vars

C10_Witness ==
    /\ pc = "mode"
    /\ report = "Error reading file, please try again"
    /\ typed = <<"missing.txt">>
    /\ tone_choice = 14
    /\ selected_transform = "pirate"
    /\ TurnsSent = 1
    /\ ws = "open"

\* C11: read_from_file never raises and gives three outcomes that can be
\* told apart: once the reader has been called on a name, its result
\* differs from the result for every name whose open/read ends differently
\* (text read, file not found, other I/O failure)
C11_OutcomesDistinct ==
    \A f \in FileNames :
        typed = <<f>> =>
            \A g \in FileNames :
                OpenRead(g).outcome # OpenRead(f).outcome =>
                    read_from_file(g) # read_from_file(f)

\* C12: in file mode, whenever the reader succeeds, whatever the text of
\* the file, the loop leaves the filename prompt with the selected
\* transform applied to that text and the next step sends it as one Turn;
\* the "Error reading file" re-prompt happens only when the read failed
C12_ReadTextSubmitted ==
    [][/\ (pc = "filename" /\ pc' # "filename") =>
             /\ OpenRead(typed'[1]).outcome = "ok" =>
                   /\ pc' = "generate"
                   /\ segments' =
                        Call(selected_transform, OpenRead(typed'[1]).text)
             /\ report' = "Error reading file, please try again" =>
                   OpenRead(typed'[1]).outcome # "ok"
       /\ (pc = "generate" /\ pc' = "recv") =>
             /\ sent' = Append(sent, "client_content")
             /\ msg' = segments]_vars

\* C13: audio_playback_task returns only when the mixer is no longer
\* busy (playback finished or never started) or the stop event is set;
\* once the stop event is set during a playback the poll sees it: the
\* task can return although the mixer is still busy
C13_PlayUntilDoneOrStopped ==
    /\ [][(pc = "playing" /\ pc' # "playing") =>
             (mixer # "busy" \/ stop_event)]_vars
    /\ []((pc = "playing" /\ stop_event) => ENABLED PlayEnd)

C13_Witness ==
    /\ pc = "playing"
    /\ mixer = "busy"
    /\ stop_event
    /\ frames # <<>>

\* characters of the texts given to the tone formatter
TextChars == {"a", "r", "R"}

\* the texts of at most MaxTextLen characters
Texts == UNION {[1..n -> TextChars] : n \in 0..MaxTextLen}

\* C14: tone 0 (skip) and tone 1 (Neutral) select the same transform:
\* the text submitted after either choice is the neutral framing of the
\* text obtained, and for every text both choices give the same
\* formatted text
C14_SkipIsNeutral ==
    (pc = "generate" /\ tone_choice \in {0, 1}) =>
        /\ segments = Call(ToneLookup(0).transform, raw_text)
        /\ segments = Call(ToneLookup(1).transform, raw_text)
        /\ \A t \in Texts :
              Call(ToneLookup(0).transform, t) = Call(ToneLookup(1).transform, t)

C14_Witness ==
    /\ pc = "generate"
    /\ tone_choice = 0
    /\ raw_text = <<"a", " ", "r", "R">>
    /\ segments = <<"S", "a", "y", ":", " ", "\"", "a", " ", "r", "R", "\"">>

\* a message with serverContent, no audio payload and no true
\* completion flag
Idle(f) ==
    /\ f.json
    /\ f.hasServerContent
    /\ DataOf(f.parts) = <<>>
    /\ f.turnComplete # "true"

\* C15: receiving a message that has serverContent but neither an audio
\* payload nor a true completion flag leaves the accumulated responses
\* unchanged and keeps the receive loop running for the same turn: no
\* Turn is sent and the position stays at the receive loop, where the
\* next message is received
C15_IdleMessageIgnored ==
    [][(/\ pc = "recv"
        /\ wire # <<>>
        /\ wire' = Tail(wire)
        /\ Idle(Head(wire).frame)) =>
          /\ pc' = "recv"
          /\ responses' = responses
          /\ arrived' = arrived
          /\ sent' = sent
          /\ cycles' = cycles
          /\ report' = ""]_vars

C15_Witness ==
    /\ pc = "recv"
    /\ response = MsgIdle
    /\ responses # <<>>
    /\ wire # <<>>
    /\ Head(wire).turn = TurnsSent

\* a well-formed message without serverContent
NoContent(f) == f.json /\ ~f.hasServerContent

\* C16: a message without serverContent ends the receive loop without an
\* error: the responses accumulated in the turn are kept, and the step
\* after the loop hands their concatenation to the sink, or reports "No
\* audio received" and returns to the prompt when there are none; the only
\* exception on this path is a failure to write output.wav; the
\* connection stays open
C16_NoContentCompletes ==
    [][/\ (/\ pc = "recv"
           /\ wire # <<>>
           /\ wire' = Tail(wire)
           /\ NoContent(Head(wire).frame)) =>
             /\ pc' = "after_loop"
             /\ responses' = responses
             /\ report' = ""
             /\ ws' = "open"
       /\ (pc = "after_loop" /\ pc' # "after_loop" /\ NoContent(response)) =>
             /\ ws' = "open"
             /\ IF responses = <<>>
                THEN /\ pc' = "tone"
                     /\ report' = "No audio received"
                     /\ ~sunk'
                ELSE \/ /\ pc' = "playback"
                        /\ sunk'
                        /\ audio_array' = concatenate(responses)
                        /\ frames' = tobytes(audio_array')
                     \/ /\ pc' = "tone"
                        /\ ~sunk'
                        /\ report' = "An error occurred"]_vars

C16_Witness ==
    /\ pc = "playback"
    /\ NoContent(response)
    /\ sunk
    /\ audio_array = <<1, -1>>
    /\ frames = <<1, 0, 255, 255>>
    /\ ws = "open"

\* the frame at the head of the connection is a decodable acknowledgement
AckReadable == wire # <<>> /\ Head(wire).frame.ascii /\ Head(wire).frame.json

\* C17: setup() ends with the tone prompt only on an acknowledgement that
\* decodes as ASCII JSON; an absent acknowledgement (the connection
\* closed first) or a malformed one is fatal: the exception is not
\* handled by the handler of the cycle, the connection is closed and the
\* process ends with no tone prompt shown and no Turn ever sent
C17_HandshakeFailureFatal ==
    /\ [][/\ (pc = "setup_recv" /\ pc' # "setup_recv") =>
                IF AckReadable
                THEN pc' = "tone"
                ELSE /\ pc' = "crashed"
                     /\ ws' = "closed"
                     /\ report' = "Traceback"
          /\ pc = "crashed" => UNCHANGED <<pc, ws, sent, dialogue, cycles>>]_vars
    /\ [](pc = "crashed" =>
            /\ TurnsSent = 0
            /\ cycles = 0
            /\ acks = 0
            /\ tone_choice = -99
            /\ selected_transform = "unbound")

C17_Witness ==
    /\ pc = "crashed"
    /\ ws = "closed"
    /\ SetupsSent = 1
    /\ srvDone
    /\ wire = <<>>
    /\ remote = "open"

\* C18: a failure of load/play is printed by audio_playback_task and goes
\* no further: the task ends, generate_audio releases the mixer and
\* returns to the tone prompt without the error handler of the cycle being
\* involved, the connection is untouched, and at the tone prompt of an
\* open session a tone can be selected for a new Turn
C18_PlaybackFailureContained ==
    /\ [][/\ (pc = "playback" /\ pc' # "playback") =>
                /\ pc' = "playing"
                /\ ws' = ws
                /\ sent' = sent
                /\ report' \in {"Starting playback",
                                "Pygame error during playback"}
                /\ report' = "Pygame error during playback" => mixer' = mixer
          /\ (pc = "playing" /\ pc' # "playing") =>
                /\ pc' = "tone"
                /\ mixer' = "off"
                /\ ws' = ws
                /\ report' = "Playback complete"]_vars
    /\ []((pc = "playing" /\ mixer # "busy") => ENABLED PlayEnd)
    /\ []((pc = "tone" /\ ws = "open" /\ cycles < MaxTurns) =>
            ENABLED ToneInput(<<"0">>))

C18_Witness ==
    /\ pc = "playing"
    /\ report = "Pygame error during playback"
    /\ mixer = "init"
    /\ ws = "open"
    /\ remote = "open"
    /\ cycles < MaxTurns

\* C19: audio never leaks across turns: while a turn is running, from the
\* moment its Turn message is sent, no message the server sent in answer
\* to an earlier turn is still unconsumed on the connection, and every
\* message consumed for the turn was sent in answer to it
C19_NoLeakAcrossTurns ==
    pc \in {"recv", "after_loop", "playback", "playing"} =>
        /\ \A i \in 1..Len(wire) : wire[i].turn = TurnsSent
        /\ answering \subseteq {TurnsSent}

\* number of lowercase r in a text
CountR(s) == Cardinality({i \in 1..Len(s) : s[i] = "r"})

\* position, in the expanded text, of the character that comes from s[i]
Offset(s, i) == i + 2 * Cardinality({j \in 1..(i - 1) : s[j] = "r"})

\* b is s with every lowercase r written three times and every other
\* character kept
Expanded(s, b) ==
    /\ Len(b) = Len(s) + 2 * CountR(s)
    /\ \A i \in 1..Len(s) :
          /\ b[Offset(s, i)] = s[i]
          /\ s[i] = "r" => (b[Offset(s, i) + 1] = "r" /\ b[Offset(s, i) + 2] = "r")

\* out is the framing 'Say this like a pirate: "Arrg, ' and '... arrg"'
\* around the expansion of t, the framing words keeping their own r's
PirateFramed(t, out) ==
    /\ Len(out) = Len(PiratePrefix) + Len(t) + 2 * CountR(t) + Len(PirateSuffix)
    /\ SubSeq(out, 1, Len(PiratePrefix)) = PiratePrefix
    /\ SubSeq(out, Len(out) - Len(PirateSuffix) + 1, Len(out)) = PirateSuffix
    /\ Expanded(t, SubSeq(out, Len(PiratePrefix) + 1, Len(out) - Len(PirateSuffix)))
    /\ CountR(PiratePrefix) = 3
    /\ CountR(PirateSuffix) = 2
    /\ CountR(out) = 3 + 3 * CountR(t) + 2

\* C20: the text submitted with the pirate tone is the pirate framing
\* around the text obtained with each lowercase r replaced by rrr (length
\* grows by 2 per r), R and all other characters unchanged and the r's
\* of the framing not expanded; the same holds of pirate(t) for every
\* text t of at most MaxTextLen characters
C20_PirateExpandsInputOnly ==
    (pc = "generate" /\ selected_transform = "pirate") =>
        /\ PirateFramed(raw_text, segments)
        /\ \A t \in Texts : PirateFramed(t, Call("pirate", t))

C20_Witness ==
    /\ pc = "generate"
    /\ selected_transform = "pirate"
    /\ raw_text = <<"a", " ", "r", "R">>
    /\ segments = PiratePrefix \o <<"a", " ", "r", "r", "r", "R">> \o PirateSuffix

====
